---- MODULE Spec2Model ----
(***************************************************************************)
(* A model of two whole-module passes of binaryen:                         *)
(*   - OnceReduction            (src/src/passes/OnceReduction.cpp)         *)
(*   - ConstantFieldPropagation (src/src/passes/ConstantFieldPropagation.cpp) *)
(*                                                                         *)
(* The IR is modelled by the subset the passes inspect.  A function body   *)
(* is a Block whose list holds statements; a statement is a record         *)
(*   [op, name, vk, n, cond]                                               *)
(*   op   "ifret"  : (if (global.get name) (return))   (no else arm)       *)
(*        "set"    : (global.set name value)                               *)
(*        "call"   : (call name)            (no operands)                  *)
(*        "get"    : (drop (global.get name))                              *)
(*        "return" : (return)                                              *)
(*        "nop"    : (nop)                                                 *)
(*   vk,n : the value of a "set": vk = "const" with the integer n,         *)
(*          "nonconst" (an integer expression that is no Const), or        *)
(*          "unr" (an expression of unreachable type)                      *)
(*   cond : TRUE when the statement is the true arm of an if whose         *)
(*          condition is opaque to the pass: (if (cond) stmt)              *)
(*                                                                         *)
(* For ConstantFieldPropagation the module is its struct types with their  *)
(* declared supertypes, the struct.new and struct.set instructions of its  *)
(* functions, and its struct.get sites.  The pass handles every field      *)
(* index on its own (the loops over the fields never mix two indexes), so  *)
(* the model follows one field, which every type of the hierarchy has: a   *)
(* type without the field is above the hierarchy of that field and takes   *)
(* no part in its propagation.  Code outside functions (walkModuleCode) is *)
(* scanned like one more function.                                         *)
(***************************************************************************)
EXTENDS Integers, Sequences, FiniteSets, TLC

\* ------------------------------------------------------------------ bounds

\* total number of statements after the prologues, over all functions
MaxStmts == 3
\* most statements after the prologue in one function
MaxTail == 2
\* the same total for the modules that are also run
ExecStmts == 3
\* the deepest call stack of the program running
MaxDepth == 3
MaxOrPasses == 2
MaxScanStmts == 3
MaxBlockStmts == 6
MaxParStmts == 2

\* ---------------------------------------------------------------- universe

Funcs == {"foo", "bar", "baz"}
Globals == {"g1", "g2"}
\* Name(): the empty name
NoName == ""

\* The module ConstantFieldPropagation runs on: its struct types, which all
\* have the field the model follows, and its functions.
Types == {"A", "B", "C"}
CfpFuncs == {"f1", "f2"}
\* no declared supertype
NoType == "none"
\* the static type of a reference of unreachable type
Unreachable == "unreachable"
Nominal == "nominal"
TypeSystems == {Nominal, "equirecursive"}

VARIABLES
  globals,                  \* module->globals: name -> declaration
  funcs,                    \* module->functions: name -> [hasSig, isBlock, list]
  onceGlobals,              \* OptInfo::onceGlobals
  onceFuncs,                \* OptInfo::onceFuncs
  onceGlobalsSetInFuncs,    \* OptInfo::onceGlobalsSetInFuncs
  newOnceGlobalsSetInFuncs, \* OptInfo::newOnceGlobalsSetInFuncs
  lastOnceGlobalsSet,       \* run(): Index lastOnceGlobalsSet
  pc,                       \* run(): position: "scan", "combine", "loop", "done"
  runs,                     \* number of Optimizer runs so far in this run of the pass
  orPasses,                 \* number of finished runs of OnceReduction
  input,                    \* the function bodies as run() was called
  history,                  \* what the last step of run() did (see Iterate)
  store,                    \* the program running: the value of each global
  stack,                    \* the program running: frames [f, i], innermost last
  returned,                 \* the guards whose "once" function has returned
  lastRet,                  \* the function that returned in the last step
  typeSystem,               \* getTypeSystem(): the type system in force
  superType,                \* CFP module: declared supertype of each struct type
  writes,                   \* CFP module: function -> its struct.new / struct.set
  gets,                     \* CFP module: the struct.get sites and what became of them
  functionNewInfos,         \* ConstantFieldPropagation::run: per-function new-info
  functionSetInfos,         \* ConstantFieldPropagation::run: per-function set-info
  combinedNewInfos,         \* ConstantFieldPropagation::run: module new-info
  combinedSetInfos,         \* ConstantFieldPropagation::run: module set-info
  combinedInfos,            \* ConstantFieldPropagation::run: what the rewriter reads
  shrinkLevel,              \* PassOptions::shrinkLevel
  fieldIsRef,               \* whether the field's type is a reference type
  cpc,                      \* ConstantFieldPropagation::run: position
  passes,                   \* number of completed runs of the pass
  before,                   \* the module as it was when the last run began
  thisInfo,                 \* a PossibleConstantValues: the receiver of combine
  thisBefore,               \* the receiver as it was before combine
  otherCalls,               \* the note / noteUnknown calls that made the argument
  otherInfo,                \* a PossibleConstantValues: the argument of combine
  changed,                  \* what combine returned
  lpc,                      \* position: "start", "combine", "done"
  scanAt                    \* parallel scan: the step each function's task is at

orVars == <<globals, funcs, onceGlobals, onceFuncs, onceGlobalsSetInFuncs,
            newOnceGlobalsSetInFuncs, lastOnceGlobalsSet, runs, orPasses,
            input, history>>
exVars == <<store, stack, returned, lastRet>>
cfVars == <<typeSystem, superType, writes, gets, functionNewInfos, functionSetInfos,
            combinedNewInfos, combinedSetInfos, combinedInfos, shrinkLevel,
            fieldIsRef, cpc, passes, before>>
laVars == <<thisInfo, thisBefore, otherCalls, otherInfo, changed, lpc>>
vars == <<orVars, pc, exVars, cfVars, laVars, scanAt>>

\* ------------------------------------------------------------- statements

Stmt(op, name, vk, n, cond) ==
  [op |-> op, name |-> name, vk |-> vk, n |-> n, cond |-> cond]

IfRet(g) == Stmt("ifret", g, "", 0, FALSE)
SetC(g, n) == Stmt("set", g, "const", n, FALSE)
Call(f) == Stmt("call", f, "", 0, FALSE)
InIf(s) == [s EXCEPT !.cond = TRUE]
\* ExpressionManipulator::nop(expr): the node becomes a Nop in place
NopOf(s) == Stmt("nop", NoName, "", 0, s.cond)

\* ------------------------------------------------------------- sequences

RECURSIVE SeqsUpTo(_, _)
SeqsUpTo(S, n) ==
  IF n = 0 THEN {<<>>}
  ELSE LET r == SeqsUpTo(S, n - 1)
       IN r \cup {Append(q, x) : q \in {p \in r : Len(p) = n - 1}, x \in S}

\* the sum of fn[x] over x in S
RECURSIVE SumOver(_, _)
SumOver(S, fn) ==
  IF S = {} THEN 0
  ELSE LET x == CHOOSE y \in S : TRUE IN fn[x] + SumOver(S \ {x}, fn)

\* ===================================================== OnceReduction: Scanner

\* variant of ReadsOf: the read in the condition of an if is not counted
ReadsOfMut(s, g) == IF s.op = "get" /\ s.name = g THEN 1 ELSE 0

\* Scanner::visitGlobalGet, for one statement
ReadsOf(s, g) == IF s.op \in {"ifret", "get"} /\ s.name = g THEN 1 ELSE 0

\* Scanner::visitGlobalGet over a whole body: readGlobals[g], the number of
\* global.get of g in the function (the scratch map is per function).
RECURSIVE readGlobals(_, _)
readGlobals(list, g) ==
  IF list = <<>> THEN 0 ELSE ReadsOf(Head(list), g) + readGlobals(Tail(list), g)

\* variant of BadSet: a set of a constant that is not positive is let through
BadSetMut(s) ==
  /\ s.op = "set"
  /\ s.vk = "nonconst"

\* Scanner::visitGlobalSet: TRUE when this set makes its global not "once".
BadSet(s) ==
  /\ s.op = "set"
  /\ s.vk \in {"const", "nonconst"}          \* curr->value->type.isInteger()
  /\ ~(s.vk = "const" /\ s.n > 0)            \* not a Const with value > 0

\* variant of getOnceGlobal: the type of the set is not looked at
getOnceGlobalMut(body) ==
  LET list == body.list IN
  IF ~body.isBlock THEN NoName
  ELSE IF Len(list) < 2 THEN NoName
  ELSE IF list[1].op # "ifret" THEN NoName
  ELSE IF ~(list[2].op = "set" /\ ~list[2].cond) \/ list[2].name # list[1].name
  THEN NoName
  ELSE list[1].name

\* Scanner::getOnceGlobal
getOnceGlobal(body) ==
  LET list == body.list IN
  IF ~body.isBlock THEN NoName
  ELSE IF Len(list) < 2 THEN NoName
  ELSE IF list[1].op # "ifret" THEN NoName
  ELSE IF ~(list[2].op = "set" /\ ~list[2].cond) \/ list[2].name # list[1].name
          \/ list[2].vk = "unr" THEN NoName
  ELSE list[1].name

\* Scanner::visitFunction: the guard recorded in onceFuncs for this function
ScanOnceFunc(body) ==
  IF ~body.hasSig THEN getOnceGlobal(body) ELSE NoName

\* Scanner::visitFunction: the count kept for g after the prologue's read is
\* taken off
ResidualReads(body, g) ==
  readGlobals(body.list, g) - (IF ScanOnceFunc(body) = g THEN 1 ELSE 0)

\* The globals one function's scan sets to false in onceGlobals
ScanDemotes(body) ==
  {g \in Globals :
     \/ \E i \in 1..Len(body.list) : body.list[i].name = g /\ BadSet(body.list[i])
     \/ ResidualReads(body, g) > 0}

\* ============================================ OnceReduction: CFG and DomTree

\* CFGWalker: basic blocks are numbered from 1 in creation order; block 1 is
\* the entry.  A block is [exprs, preds]: exprs lists the positions (in the
\* body's list) of the calls and global.sets recorded in it by
\* Optimizer::visitCall / visitGlobalSet, preds the blocks linked to it.
\* currBasicBlock = nullptr (code after a return or an unreachable) is 0.
NullBlock == 0

startBasicBlock(acc, from) ==
  [blocks |-> Append(acc.blocks, [exprs |-> <<>>, preds |-> from \ {NullBlock}]),
   cur |-> Len(acc.blocks) + 1]

\* Optimizer::visitGlobalSet, Optimizer::visitCall
RecordExpr(acc, i) ==
  IF acc.cur = NullBlock THEN acc
  ELSE [acc EXCEPT !.blocks[acc.cur].exprs = Append(@, i)]

\* the walk of one statement that is no if
WalkSimple(acc, s, i) ==
  CASE s.op = "call" -> RecordExpr(acc, i)
    [] s.op = "set" ->
         IF s.vk = "unr" THEN [acc EXCEPT !.cur = NullBlock]
         ELSE RecordExpr(acc, i)
    [] s.op = "return" -> [acc EXCEPT !.cur = NullBlock]
    [] OTHER -> acc

\* the walk of one statement of the body's list: an if starts a block for its
\* true arm and, at its end, a block that the arm's end and (there being no
\* else) the condition's block are linked to
WalkStmt(acc, s, i) ==
  IF s.op = "ifret" \/ s.cond
  THEN LET last == acc.cur
           arm == startBasicBlock(acc, {last})
           done == IF s.op = "ifret" THEN [arm EXCEPT !.cur = NullBlock]
                   ELSE WalkSimple(arm, s, i)
       IN startBasicBlock(done, {done.cur, last})
  ELSE WalkSimple(acc, s, i)

RECURSIVE WalkList(_, _, _)
WalkList(acc, list, i) ==
  IF i > Len(list) THEN acc
  ELSE WalkList(WalkStmt(acc, list[i], i), list, i + 1)

\* CFGWalker::doWalkFunction: basicBlocks of a body
basicBlocks(list) ==
  WalkList(startBasicBlock([blocks |-> <<>>, cur |-> NullBlock], {}), list, 1).blocks

\* DomTree: the blocks dominating each block (the empty set for a block that
\* cannot be reached from the entry).  Every predecessor has a lower index.
RECURSIVE DomSets(_, _)
DomSets(blocks, n) ==
  IF n = 0 THEN <<>>
  ELSE LET prev == DomSets(blocks, n - 1)
           live == {p \in blocks[n].preds : prev[p] # {}}
           mine == IF n = 1 THEN {1}
                   ELSE IF live = {} THEN {}
                   ELSE {n} \cup {d \in 1..(n - 1) : \A p \in live : d \in prev[p]}
       IN Append(prev, mine)

\* DomTree::iDoms; DomTree::nonsense is 0
nonsense == 0

iDoms(blocks) ==
  LET doms == DomSets(blocks, Len(blocks)) IN
  [i \in 1..Len(blocks) |->
     LET strict == doms[i] \ {i} IN
     IF strict = {} THEN nonsense
     ELSE CHOOSE d \in strict : \A e \in strict : e \in doms[d]]

\* ================================================ OnceReduction: Optimizer

\* One expression of a block (lines 272-315).  st is [list, written, nops]:
\* the body's list, onceGlobalsWritten of the block being processed, and the
\* expressions replaced by a nop so far, each as <<position, global>>.

\* variant of optimizeOnce: a replaced expression takes the global out of
\* the written set again
optimizeOnceMut(st, i, globalName) ==
  IF globalName \in st.written
  THEN [st EXCEPT !.list[i] = NopOf(@), !.nops = @ \cup {<<i, globalName>>},
                  !.written = @ \ {globalName}]
  ELSE [st EXCEPT !.written = @ \cup {globalName}]

\* variant of optimizeOnce: the global counts as written before the test
optimizeOnceMutAlways(st, i, globalName) ==
  [st EXCEPT !.list[i] = NopOf(@), !.nops = @ \cup {<<i, globalName>>},
             !.written = @ \cup {globalName}]

\* optimizeOnce (lines 275-289)
optimizeOnce(st, i, globalName) ==
  IF globalName \in st.written
  THEN [st EXCEPT !.list[i] = NopOf(@), !.nops = @ \cup {<<i, globalName>>}]
  ELSE [st EXCEPT !.written = @ \cup {globalName}]

\* variant of optimizeExpr: a call of a function that is not "once" adds
\* nothing to the written set
optimizeExprMut(st, i, oG, oF, setIn) ==
  LET s == st.list[i] IN
  IF s.op = "set"
  THEN IF oG[s.name] THEN optimizeOnce(st, i, s.name) ELSE st
  ELSE IF oF[s.name] # NoName
       THEN optimizeOnce(st, i, oF[s.name])
       ELSE st

\* Optimizer::doWalkFunction, the loop body (lines 291-314)
optimizeExpr(st, i, oG, oF, setIn) ==
  LET s == st.list[i] IN
  IF s.op = "set"
  THEN IF oG[s.name] THEN optimizeOnce(st, i, s.name) ELSE st
  ELSE IF oF[s.name] # NoName
       THEN optimizeOnce(st, i, oF[s.name])
       ELSE [st EXCEPT !.written = @ \cup setIn[s.name]]

RECURSIVE optimizeExprs(_, _, _, _, _, _)
optimizeExprs(st, exprs, k, oG, oF, setIn) ==
  IF k > Len(exprs) THEN st
  ELSE optimizeExprs(optimizeExpr(st, exprs[k], oG, oF, setIn),
                     exprs, k + 1, oG, oF, setIn)

\* what a block starts with (lines 257-268): the final set of its immediate
\* dominator, and nothing for the entry
\* variant of blockStart: a block starts with what its first predecessor wrote
blockStartMut(vec, blocks, doms, i) ==
  IF doms[i] = nonsense
  THEN {}
  ELSE LET p == CHOOSE q \in blocks[i].preds :
                  \A r \in blocks[i].preds : q >= r
       IN vec[p]

blockStart(vec, blocks, doms, i) ==
  IF doms[i] = nonsense THEN {} ELSE vec[doms[i]]

\* The loop over the blocks (lines 248-316).  acc is [list, vec, nops]; vec
\* is onceGlobalsWrittenVec.
RECURSIVE optimizeBlocks(_, _, _, _, _, _, _)
optimizeBlocks(acc, blocks, doms, i, oG, oF, setIn) ==
  IF i > Len(blocks) THEN acc
  ELSE IF doms[i] = nonsense /\ i > 1
  THEN optimizeBlocks([acc EXCEPT !.vec = Append(@, {})],
                      blocks, doms, i + 1, oG, oF, setIn)
  ELSE LET st == optimizeExprs([list |-> acc.list,
                                written |-> blockStart(acc.vec, blocks, doms, i),
                                nops |-> acc.nops],
                               blocks[i].exprs, 1, oG, oF, setIn)
       IN optimizeBlocks([list |-> st.list, vec |-> Append(acc.vec, st.written),
                          nops |-> st.nops],
                         blocks, doms, i + 1, oG, oF, setIn)

\* variant of doWalkFunction: what is stored for the function is what any
\* of its blocks ends with
doWalkFunctionMut(list, oG, oF, setIn) ==
  LET blocks == basicBlocks(list)
      r == optimizeBlocks([list |-> list, vec |-> <<>>, nops |-> {}],
                          blocks, iDoms(blocks), 1, oG, oF, setIn)
  IN [r EXCEPT !.vec[1] = UNION {r.vec[k] : k \in 1..Len(r.vec)}]

\* Optimizer::doWalkFunction: [list, vec, nops] for one function; vec[1] is
\* what is stored in newOnceGlobalsSetInFuncs
doWalkFunction(list, oG, oF, setIn) ==
  LET blocks == basicBlocks(list) IN
  optimizeBlocks([list |-> list, vec |-> <<>>, nops |-> {}],
                 blocks, iDoms(blocks), 1, oG, oF, setIn)

\* ================================================== OnceReduction: the module

\* A global's declaration: [isInteger, imported, constInit, init]
PlainGlobal == [isInteger |-> TRUE, imported |-> FALSE, constInit |-> TRUE, init |-> 0]

\* the "once" pattern at the top of a body
Prologue(g) == <<IfRet(g), SetC(g, 1)>>

Prologues == {<<>>} \cup {Prologue(g) : g \in {"g1"}}

TailStmts ==
  {Call(f) : f \in Funcs} \cup {InIf(Call(f)) : f \in Funcs}
    \cup {SetC(g, n) : g \in Globals, n \in {0, 1}}

Body(pro, tail) == [hasSig |-> FALSE, isBlock |-> TRUE, list |-> pro \o tail]

\* the statement lists after a prologue, by greatest length
Least(a, b) == IF a < b THEN a ELSE b

TailsOfLen == [k \in 0..MaxTail |-> SeqsUpTo(TailStmts, k)]
TailsUpTo(budget) == TailsOfLen[IF budget < MaxTail THEN budget ELSE MaxTail]

\* ================================================== OnceReduction::run

\* lines 338-353: the initial data
InitialOnceGlobals(decls) ==
  [g \in Globals |-> decls[g].isInteger /\ ~decls[g].imported /\ decls[g].constInit]

NoHistory == [step |-> "none", funcs |-> <<>>, setIn |-> <<>>, nops |-> {}, last |-> 0]

\* before run() is called no module has been seen
EmptyBody == [hasSig |-> FALSE, isBlock |-> TRUE, list |-> <<>>]

\* A PossibleConstantValues is [noted, values]; values is the SmallVector, in
\* the order the values were pushed.  A default-constructed one has noted
\* nothing.
Unwritten == [noted |-> FALSE, values |-> <<>>]

\* StructValuesMap: a type without an entry reads as a type that noted nothing
NoInfos == [t \in Types |-> Unwritten]

\* A struct.get site: the node that stands where the StructGet stood ("get"
\* while the StructGet is still there), the constant of a "const" node, and
\* the selects wrapped around it, innermost first.
UntouchedGet == [node |-> "get", values |-> <<>>, selects |-> <<>>]

\* The struct.get sites of a module: one per static type of the reference.
GetSites == Types \cup {Unreachable}

NoModule == [writes |-> [f \in CfpFuncs |-> <<>>],
             gets |-> [s \in GetSites |-> UntouchedGet]]

Init ==
  /\ globals = [g \in Globals |-> PlainGlobal]
  /\ funcs = [f \in Funcs |-> EmptyBody]
  /\ onceGlobals = [g \in Globals |-> FALSE]
  /\ onceFuncs = [f \in Funcs |-> NoName]
  /\ onceGlobalsSetInFuncs = [f \in Funcs |-> {}]
  /\ newOnceGlobalsSetInFuncs = [f \in Funcs |-> {}]
  /\ lastOnceGlobalsSet = 0
  /\ pc = "start"
  /\ runs = 0
  /\ orPasses = 0
  /\ input = [f \in Funcs |-> EmptyBody]
  /\ history = NoHistory
  /\ store = [g \in Globals |-> 0]
  /\ stack = <<>>
  /\ returned = {}
  /\ lastRet = NoName
  /\ typeSystem = Nominal
  /\ superType = [t \in Types |-> NoType]
  /\ writes = [f \in CfpFuncs |-> <<>>]
  /\ gets = [s \in GetSites |-> UntouchedGet]
  /\ functionNewInfos = [f \in CfpFuncs |-> NoInfos]
  /\ functionSetInfos = [f \in CfpFuncs |-> NoInfos]
  /\ combinedNewInfos = NoInfos
  /\ combinedSetInfos = NoInfos
  /\ combinedInfos = NoInfos
  /\ shrinkLevel = 0
  /\ fieldIsRef = FALSE
  /\ cpc = "start"
  /\ passes = 0
  /\ before = NoModule
  /\ thisInfo = Unwritten /\ thisBefore = Unwritten
  /\ otherCalls = <<>> /\ otherInfo = Unwritten
  /\ changed = FALSE
  /\ lpc = "start"
  /\ scanAt = [f \in Funcs |-> 1]

\* OnceReduction::run is called on a module; lines 335-353.  The pass treats
\* all functions alike, so of the modules that differ only in the names of
\* their functions the one whose bodies come longest first is taken.
StartWith(budget) ==
  /\ pc = "start"
  /\ \E t1 \in TailsUpTo(budget) :
       \E t2 \in TailsUpTo(Least(Len(t1), budget - Len(t1))) :
         \E t3 \in TailsUpTo(Least(Len(t2), budget - Len(t1) - Len(t2))) :
           \E p1 \in Prologues, p2 \in Prologues, p3 \in Prologues :
             funcs' = [f \in Funcs |-> IF f = "foo" THEN Body(p1, t1)
                                       ELSE IF f = "bar" THEN Body(p2, t2)
                                       ELSE Body(p3, t3)]
  /\ globals' = [g \in Globals |-> PlainGlobal]
  /\ onceGlobals' = InitialOnceGlobals(globals')
  /\ onceFuncs' = [f \in Funcs |-> NoName]
  /\ input' = funcs'
  /\ pc' = "scan"
  /\ history' = [NoHistory EXCEPT !.step = "start"]
  /\ UNCHANGED <<onceGlobalsSetInFuncs, newOnceGlobalsSetInFuncs,
                 lastOnceGlobalsSet, runs, orPasses, exVars, cfVars, laVars, scanAt>>

Start == StartWith(MaxStmts)

\* line 356: Scanner(optInfo).run(runner, module)
Scan ==
  /\ pc = "scan"
  /\ onceGlobals' = [g \in Globals |->
        onceGlobals[g] /\ \A f \in Funcs : g \notin ScanDemotes(funcs[f])]
  /\ onceFuncs' = [f \in Funcs |-> ScanOnceFunc(funcs[f])]
  /\ pc' = "combine"
  /\ history' = [NoHistory EXCEPT !.step = "scan"]
  /\ UNCHANGED <<globals, funcs, onceGlobalsSetInFuncs, newOnceGlobalsSetInFuncs,
                 lastOnceGlobalsSet, runs, orPasses, input, exVars, cfVars, laVars, scanAt>>

\* lines 361-366: a function whose global is not "once" is not "once"
Demoted(oF, oG) ==
  [f \in Funcs |-> IF oF[f] # NoName /\ ~oG[oF[f]] THEN NoName ELSE oF[f]]

\* lines 379-388: onceGlobalsSetInFuncs for the first iteration
FirstSetInFuncs(oF) ==
  [f \in Funcs |-> IF oF[f] # NoName THEN {oF[f]} ELSE {}]

\* lines 378-393: whether any function is left "once"
\* variant of foundOnce: the Optimizer is run whatever the scan found
foundOnceMut(oF) == TRUE

foundOnce(oF) == \E f \in Funcs : oF[f] # NoName

\* lines 361-393
Combine ==
  /\ pc = "combine"
  /\ onceFuncs' = Demoted(onceFuncs, onceGlobals)
  /\ lastOnceGlobalsSet' = 0
  /\ onceGlobalsSetInFuncs' = FirstSetInFuncs(onceFuncs')
  /\ pc' = IF foundOnce(onceFuncs') THEN "loop" ELSE "done"
  /\ orPasses' = IF pc' = "done" THEN orPasses + 1 ELSE orPasses
  /\ history' = [NoHistory EXCEPT !.step = "combine"]
  /\ UNCHANGED <<globals, funcs, onceGlobals, newOnceGlobalsSetInFuncs, runs, input,
                 exVars, cfVars, laVars, scanAt>>

\* lines 409-413
CountSet(setIn) == SumOver(Funcs, [f \in Funcs |-> Cardinality(setIn[f])])

\* lines 415-419: whether the loop goes round again
\* variant of moreWork: the loop goes on while the count has not shrunk
moreWorkMut(curr, last) == curr >= last

moreWork(curr, last) == curr > last

\* lines 395-420: one iteration of the loop
Iterate ==
  /\ pc = "loop"
  /\ LET res == [f \in Funcs |->
                   doWalkFunction(funcs[f].list, onceGlobals, onceFuncs,
                                  onceGlobalsSetInFuncs)]
         new == [f \in Funcs |-> res[f].vec[1]]
         currOnceGlobalsSet == CountSet(new)
     IN /\ funcs' = [f \in Funcs |-> [funcs[f] EXCEPT !.list = res[f].list]]
        /\ onceGlobalsSetInFuncs' = new
        /\ newOnceGlobalsSetInFuncs' = [f \in Funcs |-> {}]
        /\ history' = [step |-> "iterate", funcs |-> funcs,
                        setIn |-> onceGlobalsSetInFuncs,
                        nops |-> UNION {{<<f, n[1], n[2]>> : n \in res[f].nops} : f \in Funcs},
                        last |-> lastOnceGlobalsSet]
        /\ IF currOnceGlobalsSet < lastOnceGlobalsSet
           THEN pc' = "abort" /\ UNCHANGED lastOnceGlobalsSet
           ELSE IF moreWork(currOnceGlobalsSet, lastOnceGlobalsSet)
           THEN pc' = "loop" /\ lastOnceGlobalsSet' = currOnceGlobalsSet
           ELSE pc' = "done" /\ UNCHANGED lastOnceGlobalsSet
  /\ runs' = runs + 1
  /\ orPasses' = IF pc' = "done" THEN orPasses + 1 ELSE orPasses
  /\ UNCHANGED <<globals, onceGlobals, onceFuncs, input, exVars, cfVars, laVars, scanAt>>

Next == Start \/ Scan \/ Combine \/ Iterate

Spec == Init /\ [][Next]_vars

\* the pass is run again on the module it produced: lines 335-353, with a
\* fresh OptInfo
OrRerun ==
  /\ pc = "done"
  /\ orPasses < MaxOrPasses
  /\ onceGlobals' = InitialOnceGlobals(globals)
  /\ onceFuncs' = [f \in Funcs |-> NoName]
  /\ onceGlobalsSetInFuncs' = [f \in Funcs |-> {}]
  /\ newOnceGlobalsSetInFuncs' = [f \in Funcs |-> {}]
  /\ lastOnceGlobalsSet' = 0
  /\ runs' = 0
  /\ input' = funcs
  /\ pc' = "scan"
  /\ history' = [NoHistory EXCEPT !.step = "start"]
  /\ UNCHANGED <<globals, funcs, orPasses, exVars, cfVars, laVars, scanAt>>

NextTwice == Next \/ OrRerun

\* The modules the Scanner is checked on: the globals' declarations vary, and
\* the bodies hold reads and writes of every kind the Scanner tells apart: a
\* write of a positive, zero or negative constant, of a value that is no
\* constant, and of a value of unreachable type.
GlobalDecls ==
  {PlainGlobal, [PlainGlobal EXCEPT !.isInteger = FALSE],
   [PlainGlobal EXCEPT !.imported = TRUE, !.constInit = FALSE],
   [PlainGlobal EXCEPT !.constInit = FALSE]}

ScanStmts ==
  {IfRet(g) : g \in Globals}
    \cup {Stmt("get", g, "", 0, FALSE) : g \in Globals}
    \cup {SetC(g, n) : g \in Globals, n \in {-1, 0, 1}}
    \cup {Stmt("set", g, vk, 0, FALSE) : g \in Globals, vk \in {"nonconst", "unr"}}

\* OnceReduction::run is called on such a module (lines 335-353); the bodies
\* come longest first, and the first may have parameters or results
ScanStartWith(budget) ==
  /\ pc = "start"
  /\ \E n1 \in 0..budget :
       \E n2 \in 0..Least(n1, budget - n1) :
         \E n3 \in 0..Least(n2, budget - n1 - n2) :
           \E b1 \in [1..n1 -> ScanStmts], b2 \in [1..n2 -> ScanStmts],
              b3 \in [1..n3 -> ScanStmts], sig \in BOOLEAN :
             /\ sig => n1 >= 2
             /\ funcs' = [f \in Funcs |->
                            IF f = "foo" THEN [Body(<<>>, b1) EXCEPT !.hasSig = sig]
                            ELSE IF f = "bar" THEN Body(<<>>, b2)
                            ELSE Body(<<>>, b3)]
  /\ \E d \in GlobalDecls :
       globals' = [g \in Globals |-> IF g = "g1" THEN d ELSE PlainGlobal]
  /\ onceGlobals' = InitialOnceGlobals(globals')
  /\ onceFuncs' = [f \in Funcs |-> NoName]
  /\ input' = funcs'
  /\ pc' = "scan"
  /\ history' = [NoHistory EXCEPT !.step = "start"]
  /\ UNCHANGED <<onceGlobalsSetInFuncs, newOnceGlobalsSetInFuncs,
                 lastOnceGlobalsSet, runs, orPasses, exVars, cfVars, laVars, scanAt>>

\* The modules the Optimizer's walk over the blocks is checked on: foo is
\* the "once" function of g1, baz is empty, and bar's body is any list of
\* calls of foo, alone or in an if, writes of g1, returns, and ifs that
\* return (on g2, which the read takes the flag from).
BlockStmts ==
  {Call("foo"), InIf(Call("foo")), SetC("g1", 1),
   Stmt("return", NoName, "", 0, FALSE), IfRet("g2")}

BlocksStart ==
  /\ pc = "start"
  /\ \E n \in 0..MaxBlockStmts :
       \E b \in [1..n -> BlockStmts] :
         funcs' = [f \in Funcs |->
                     IF f = "foo" THEN Body(Prologue("g1"), <<>>)
                     ELSE IF f = "bar" THEN Body(<<>>, b)
                     ELSE EmptyBody]
  /\ globals' = [g \in Globals |-> PlainGlobal]
  /\ onceGlobals' = InitialOnceGlobals(globals')
  /\ onceFuncs' = [f \in Funcs |-> NoName]
  /\ input' = funcs'
  /\ pc' = "scan"
  /\ history' = [NoHistory EXCEPT !.step = "start"]
  /\ UNCHANGED <<onceGlobalsSetInFuncs, newOnceGlobalsSetInFuncs,
                 lastOnceGlobalsSet, runs, orPasses, exVars, cfVars, laVars, scanAt>>

NextBlocks == BlocksStart \/ Scan \/ Combine \/ Iterate

SpecBlocks == Init /\ [][NextBlocks]_vars

ScanStart == ScanStartWith(MaxScanStmts)

NextScan == ScanStart \/ Scan \/ Combine \/ Iterate

SpecScan == Init /\ [][NextScan]_vars

\* The scan as the function-parallel pass it is (line 356): one task per
\* function, each with a Scanner of its own, the tasks' steps interleaved.  A
\* task visits the statements of its body in order, then runs visitFunction:
\* the write of onceFuncs[f], then for each global the test of its count.
\* scanAt[f] is the step the task of f takes next.
GlobalOrder == <<"g1", "g2">>

\* variant of storeFlag: a write of a positive constant sets the flag
storeFlagMut(flag, bad) == ~bad

\* lines 103-111, 132-136: onceGlobals[g] is assigned false, or left alone
storeFlag(flag, bad) == IF bad THEN FALSE ELSE flag

ParStart == ScanStartWith(MaxParStmts)

ParStep ==
  /\ pc = "scan"
  /\ \E f \in Funcs :
       LET list == funcs[f].list
           i == scanAt[f]
       IN /\ i <= Len(list) + 1 + Len(GlobalOrder)
          /\ scanAt' = [scanAt EXCEPT ![f] = i + 1]
          /\ IF i <= Len(list)
             THEN /\ onceGlobals' =
                       IF list[i].op = "set" /\ list[i].vk \in {"const", "nonconst"}
                       THEN [onceGlobals EXCEPT ![list[i].name] = storeFlag(@, BadSet(list[i]))]
                       ELSE onceGlobals
                  /\ UNCHANGED onceFuncs
             ELSE IF i = Len(list) + 1
             THEN /\ onceFuncs' = [onceFuncs EXCEPT ![f] = ScanOnceFunc(funcs[f])]
                  /\ UNCHANGED onceGlobals
             ELSE LET g == GlobalOrder[i - Len(list) - 1] IN
                  /\ onceGlobals' = [onceGlobals EXCEPT
                                       ![g] = storeFlag(@, ResidualReads(funcs[f], g) > 0)]
                  /\ UNCHANGED onceFuncs
  /\ UNCHANGED <<globals, funcs, onceGlobalsSetInFuncs, newOnceGlobalsSetInFuncs,
                 lastOnceGlobalsSet, runs, orPasses, input, history, pc,
                 exVars, cfVars, laVars>>

\* every task has finished: Scanner::run returns
ParJoin ==
  /\ pc = "scan"
  /\ \A f \in Funcs : scanAt[f] > Len(funcs[f].list) + 1 + Len(GlobalOrder)
  /\ pc' = "combine"
  /\ history' = [NoHistory EXCEPT !.step = "scan"]
  /\ UNCHANGED <<globals, funcs, onceGlobals, onceFuncs, onceGlobalsSetInFuncs,
                 newOnceGlobalsSetInFuncs, lastOnceGlobalsSet, runs, orPasses,
                 input, exVars, cfVars, laVars, scanAt>>

NextPar == ParStart \/ ParStep \/ ParJoin \/ Combine \/ Iterate

SpecPar == Init /\ [][NextPar]_vars

SpecTwice == Init /\ [][NextTwice]_vars

\* ================================================== the program running

\* The module as the pass has left it (or not yet touched it) is run: a
\* function is called from outside, and again after it has returned or
\* trapped; the globals keep their values between the calls.
Top == stack[Len(stack)]
TopStmt == funcs[Top.f].list[Top.i]
AtEnd == Top.i > Len(funcs[Top.f].list)
Pop == SubSeq(stack, 1, Len(stack) - 1)
Advance == [stack EXCEPT ![Len(stack)].i = @ + 1]

Enter ==
  /\ pc \in {"loop", "done", "exec"}
  /\ stack = <<>>
  /\ \E f \in Funcs : stack' = <<[f |-> f, i |-> 1]>>
  /\ pc' = "exec"
  /\ lastRet' = NoName
  /\ UNCHANGED <<cfVars, orVars, laVars, scanAt, store, returned>>

Running == pc = "exec" /\ stack # <<>>

\* the end of the body, a return, or (if (g) return) with g non-zero
ExecReturn ==
  /\ Running
  /\ \/ AtEnd
     \/ ~AtEnd /\ TopStmt.op = "return"
     \/ ~AtEnd /\ TopStmt.op = "ifret" /\ store[TopStmt.name] # 0
  /\ stack' = Pop
  /\ lastRet' = Top.f
  /\ returned' = returned \cup (IF onceFuncs[Top.f] # NoName THEN {onceFuncs[Top.f]} ELSE {})
  /\ UNCHANGED <<cfVars, orVars, laVars, scanAt, pc, store>>

\* a statement that changes nothing: a nop, a dropped read, an
\* (if (g) return) with g zero, or an if whose condition is false
ExecSkip ==
  /\ Running /\ ~AtEnd
  /\ \/ TopStmt.op \in {"nop", "get"}
     \/ TopStmt.op = "ifret" /\ store[TopStmt.name] = 0
     \/ TopStmt.cond
  /\ stack' = Advance
  /\ lastRet' = NoName
  /\ UNCHANGED <<cfVars, orVars, laVars, scanAt, pc, store, returned>>

ExecSet ==
  /\ Running /\ ~AtEnd
  /\ TopStmt.op = "set" /\ TopStmt.vk \in {"const", "nonconst"}
  /\ \E v \in (IF TopStmt.vk = "const" THEN {TopStmt.n} ELSE {0, 1}) :
       store' = [store EXCEPT ![TopStmt.name] = v]
  /\ stack' = Advance
  /\ lastRet' = NoName
  /\ UNCHANGED <<cfVars, orVars, laVars, scanAt, pc, returned>>

ExecCall ==
  /\ Running /\ ~AtEnd
  /\ TopStmt.op = "call"
  /\ Len(stack) < MaxDepth
  /\ stack' = Append(Advance, [f |-> TopStmt.name, i |-> 1])
  /\ lastRet' = NoName
  /\ UNCHANGED <<cfVars, orVars, laVars, scanAt, pc, store, returned>>

\* a trap: an unreachable is executed, or the call stack is exhausted
ExecTrap ==
  /\ Running /\ ~AtEnd
  /\ \/ TopStmt.op = "set" /\ TopStmt.vk = "unr"
     \/ TopStmt.op = "call" /\ Len(stack) >= MaxDepth
  /\ stack' = <<>>
  /\ lastRet' = NoName
  /\ UNCHANGED <<cfVars, orVars, laVars, scanAt, pc, store, returned>>

StartSmall == StartWith(ExecStmts)

NextExec ==
  \/ StartSmall \/ Scan \/ Combine \/ Iterate
  \/ Enter \/ ExecReturn \/ ExecSkip \/ ExecSet \/ ExecCall \/ ExecTrap

SpecExec == Init /\ [][NextExec]_vars

\* =========================================== ConstantFieldPropagation: lattice

\* PossibleConstantValues::MaxConstantValues
MaxConstantValues == 2

Range(q) == {q[k] : k \in 1..Len(q)}

\* PossibleConstantValues::isConstant
isConstant(info) == info.noted /\ info.values # <<>>

\* PossibleConstantValues::noteUnknown
noteUnknown(info) == [noted |-> TRUE, values |-> <<>>]

\* PossibleConstantValues::note: [info, changed]
note(info, curr) ==
  IF ~info.noted
  THEN [info |-> [noted |-> TRUE, values |-> <<curr>>], changed |-> TRUE]
  ELSE IF ~isConstant(info) THEN [info |-> info, changed |-> FALSE]
  ELSE IF curr \in Range(info.values) THEN [info |-> info, changed |-> FALSE]
  ELSE IF Len(info.values) = MaxConstantValues
  THEN [info |-> noteUnknown(info), changed |-> TRUE]
  ELSE [info |-> [info EXCEPT !.values = Append(@, curr)], changed |-> TRUE]

\* lines 127-132: the loop over other.values, which returns at the first
\* value whose note changed something
RECURSIVE combineValues(_, _, _)
combineValues(info, values, k) ==
  IF k > Len(values) THEN [info |-> info, changed |-> FALSE]
  ELSE LET r == note(info, values[k]) IN
       IF r.changed THEN r ELSE combineValues(info, values, k + 1)

\* PossibleConstantValues::combine: [info, changed]
combine(this, other) ==
  IF ~other.noted THEN [info |-> this, changed |-> FALSE]
  ELSE IF ~this.noted THEN [info |-> other, changed |-> other.noted]
  ELSE IF ~isConstant(this) THEN [info |-> this, changed |-> FALSE]
  ELSE IF ~isConstant(other) THEN [info |-> noteUnknown(this), changed |-> TRUE]
  ELSE combineValues(this, other.values, 1)

\* ======================================= ConstantFieldPropagation: the module

\* bound: the struct.new and struct.set instructions of a module
MaxWrites == 3
\* bound: the distinct constants a module writes to the field
NumLits == 3
\* bound: the instructions of a module that is run through the pass twice
TwiceWrites == 3
\* bound: how often the pass is run on a module
MaxPasses == 2
MaxCalls == 3

Lits == 1..NumLits

\* The calls made on a PossibleConstantValues: note(v) for a literal v, and
\* noteUnknown(), written AnyCall.
AnyCall == 0
LatticeCalls == Lits \cup {AnyCall}

\* info after the calls q[k], q[k+1], ... have been made on it
RECURSIVE noteAll(_, _, _)
noteAll(info, q, k) ==
  IF k > Len(q) THEN info
  ELSE noteAll(IF q[k] = AnyCall THEN noteUnknown(info) ELSE note(info, q[k]).info,
               q, k + 1)

\* Two PossibleConstantValues are made, each by up to MaxCalls calls on a
\* fresh (Unwritten) one.
LatStart ==
  /\ lpc = "start"
  /\ \E n \in 0..MaxCalls, m \in 0..MaxCalls :
       \E qa \in [1..n -> LatticeCalls], qb \in [1..m -> LatticeCalls] :
         /\ thisInfo' = noteAll(Unwritten, qa, 1)
         /\ otherCalls' = qb
         /\ otherInfo' = noteAll(Unwritten, qb, 1)
  /\ thisBefore' = thisInfo'
  /\ lpc' = "combine"
  /\ UNCHANGED <<orVars, pc, exVars, cfVars, changed, scanAt>>

\* thisInfo.combine(otherInfo)
LatCombine ==
  /\ lpc = "combine"
  /\ LET r == combine(thisInfo, otherInfo) IN
       thisInfo' = r.info /\ changed' = r.changed
  /\ lpc' = "done"
  /\ UNCHANGED <<orVars, pc, exVars, cfVars, thisBefore, otherCalls, otherInfo,
                 scanAt>>

NextLattice == LatStart \/ LatCombine

SpecLattice == Init /\ [][NextLattice]_vars

\* The declared hierarchies: a chain C <: B <: A, and two siblings B, C <: A.
Hierarchies ==
  { [t \in Types |-> IF t = "A" THEN NoType ELSE IF t = "B" THEN "A" ELSE "B"],
    [t \in Types |-> IF t = "A" THEN NoType ELSE "A"] }

\* A struct.new or struct.set on type t: k is "new" or "set"; the operand e is
\* "const" (a constant expression of literal v; struct.new_default is the
\* case of the zero literal), "copy" (a struct.get of the same type and
\* field) or "other" (any other expression, one that holds no struct.get).
Write(k, t, e, v) == [k |-> k, t |-> t, e |-> e, v |-> v]

WriteInstrs ==
  {Write(k, t, "const", v) : k \in {"new", "set"}, t \in Types, v \in Lits}
    \cup {Write(k, t, "other", 0) : k \in {"new", "set"}, t \in Types}
    \cup {Write("set", t, "copy", 0) : t \in Types}


\* The pass compares literals only for equality, so of the modules that differ
\* only in the names of their literals the one that first mentions them in
\* the order 1, 2, 3 is taken.
RECURSIVE FirstUse(_, _, _)
FirstUse(w, k, top) ==
  IF k > Len(w) THEN TRUE
  ELSE IF w[k].e # "const" THEN FirstUse(w, k + 1, top)
  ELSE w[k].v <= top + 1
       /\ FirstUse(w, k + 1, IF w[k].v > top THEN w[k].v ELSE top)

\* getSuperType / SubTypes::getSubTypes: cfVars superType is the declaration
TypeOrder == <<"A", "B", "C">>

RECURSIVE IsSubType(_, _, _)
IsSubType(sup, t, u) ==
  t = u \/ (sup[t] # NoType /\ IsSubType(sup, sup[t], u))

Comparable(sup, t, u) == IsSubType(sup, t, u) \/ IsSubType(sup, u, t)

getSubTypes(sup, t) == SelectSeq(TypeOrder, LAMBDA x : sup[x] = t)

\* =================================== ConstantFieldPropagation: scan and fold

\* PCVScanner::noteExpression, noteDefault
noteExpression(w, info) ==
  IF w.e # "const" THEN noteUnknown(info) ELSE note(info, w.v).info

\* variant of noteCopy: a copy is noted as a value that is not constant
noteCopyMut(info) == noteUnknown(info)

\* PCVScanner::noteCopy
noteCopy(info) == info

\* Scanner::noteExpressionOrCopy
noteExpressionOrCopy(w, info) ==
  IF w.e = "copy" THEN noteCopy(info) ELSE noteExpression(w, info)

\* Scanner::visitStructNew, visitStructSet over the instructions of a function
RECURSIVE scanFunction(_, _, _)
scanFunction(infos, list, k) ==
  IF k > Len(list) THEN infos
  ELSE LET w == list[k] IN
       scanFunction(
         IF w.k = "new"
         THEN [infos EXCEPT !.new[w.t] = noteExpression(w, @)]
         ELSE [infos EXCEPT !.set[w.t] = noteExpressionOrCopy(w, @)],
         list, k + 1)

\* StructValuesMap::combineInto
combineInto(from, into) == [t \in Types |-> combine(into[t], from[t]).info]

\* FunctionStructValuesMap::combineInto, over the functions in the order the
\* map hands them out
RECURSIVE combineAllInto(_, _, _, _)
combineAllInto(functionInfos, order, k, into) ==
  IF k > Len(order) THEN into
  ELSE combineAllInto(functionInfos, order, k + 1,
                      combineInto(functionInfos[order[k]], into))

Perms(S) == {q \in SeqsUpTo(S, Cardinality(S)) :
               Len(q) = Cardinality(S) /\ Range(q) = S}

\* ============================ ConstantFieldPropagation: TypeHierarchyPropagator

\* UniqueDeferredQueue::pop: an item pushed again while it waits is handed
\* out at its last position only.
RECURSIVE popIndex(_, _)
popIndex(work, k) ==
  IF \E j \in (k + 1)..Len(work) : work[j] = work[k]
  THEN popIndex(work, k + 1) ELSE k

\* the loop over the subtypes of the popped type
RECURSIVE propagateToSubs(_, _, _, _, _)
propagateToSubs(st, sup, type, subs, k) ==
  IF k > Len(subs) THEN st
  ELSE LET r == combine(st.infos[subs[k]], st.infos[type]) IN
       propagateToSubs(
         [infos |-> [st.infos EXCEPT ![subs[k]] = r.info],
          work |-> IF r.changed THEN Append(st.work, subs[k]) ELSE st.work],
         sup, type, subs, k + 1)

\* variant of propagate: the subtypes are always propagated to
RECURSIVE propagateMut(_, _, _, _)
propagateMut(infos, sup, work, toSubTypes) ==
  IF work = <<>> THEN infos
  ELSE LET k == popIndex(work, 1)
           type == work[k]
           rest == SubSeq(work, k + 1, Len(work))
           r == combine(infos[sup[type]], infos[type])
           up == IF sup[type] = NoType THEN [infos |-> infos, work |-> rest]
                 ELSE [infos |-> [infos EXCEPT ![sup[type]] = r.info],
                       work |-> IF r.changed THEN Append(rest, sup[type])
                                ELSE rest]
           down == propagateToSubs(up, sup, type, getSubTypes(sup, type), 1)
       IN propagateMut(down.infos, sup, down.work, toSubTypes)

\* TypeHierarchyPropagator::propagate: the work loop
RECURSIVE propagate(_, _, _, _)
propagate(infos, sup, work, toSubTypes) ==
  IF work = <<>> THEN infos
  ELSE LET k == popIndex(work, 1)
           type == work[k]
           rest == SubSeq(work, k + 1, Len(work))
           r == combine(infos[sup[type]], infos[type])
           up == IF sup[type] = NoType THEN [infos |-> infos, work |-> rest]
                 ELSE [infos |-> [infos EXCEPT ![sup[type]] = r.info],
                       work |-> IF r.changed THEN Append(rest, sup[type])
                                ELSE rest]
           down == IF toSubTypes
                   THEN propagateToSubs(up, sup, type, getSubTypes(sup, type), 1)
                   ELSE up
       IN propagate(down.infos, sup, down.work, toSubTypes)

\* ==================================== ConstantFieldPropagation: FunctionOptimizer

\* variant of makeConstantExpression: the StructGet is kept when the field
\* has one value, too
makeConstantExpressionMut(info, get, shrink, isRef) ==
  IF shrink > 0 /\ Len(info.values) > 1 THEN get
  ELSE IF isRef /\ Len(info.values) > 1 THEN get
  ELSE [get EXCEPT !.selects = Append(@, info.values)]

\* variant of makeConstantExpression: the select is emitted for a field of
\* reference type as well
makeConstantExpressionMutRef(info, get, shrink, isRef) ==
  LET values == info.values IN
  IF Len(values) = 1
  THEN [get EXCEPT !.node = "const", !.values = values]
  ELSE IF shrink > 0 THEN get
  ELSE IF Len(values) = 2
  THEN [get EXCEPT !.selects = Append(@, values)]
  ELSE get

\* FunctionOptimizer::makeConstantExpression
makeConstantExpression(info, get, shrink, isRef) ==
  LET values == info.values IN
  IF Len(values) = 1
  THEN [get EXCEPT !.node = "const", !.values = values]
  ELSE IF shrink > 0 THEN get
  ELSE IF Len(values) = 2
  THEN IF isRef THEN get
       ELSE [get EXCEPT !.selects = Append(@, values)]
  ELSE get

\* variant of visitStructGet: the reference of unreachable type is looked up
\* like any other, and finds no entry
visitStructGetMut(get, s, infos, shrink, isRef) ==
  IF get.node # "get" THEN get
  ELSE IF s = Unreachable THEN [get EXCEPT !.node = "trap"]
  ELSE LET info == infos[s] IN
       IF ~info.noted THEN [get EXCEPT !.node = "trap"]
       ELSE IF ~isConstant(info) THEN get
       ELSE makeConstantExpression(info, get, shrink, isRef)

\* FunctionOptimizer::visitStructGet on the StructGet of site s
visitStructGet(get, s, infos, shrink, isRef) ==
  IF get.node # "get" THEN get
  ELSE IF s = Unreachable THEN get
  ELSE LET info == infos[s] IN
       IF ~info.noted THEN [get EXCEPT !.node = "trap"]
       ELSE IF ~isConstant(info) THEN get
       ELSE makeConstantExpression(info, get, shrink, isRef)

\* The operand of a copy is a StructGet of the type of the struct.set; once
\* the walk has replaced it the operand is another expression.
optimizeWrite(w, infos, shrink, isRef) ==
  IF w.e = "copy"
     /\ visitStructGet(UntouchedGet, w.t, infos, shrink, isRef) # UntouchedGet
  THEN [w EXCEPT !.e = "other"]
  ELSE w

\* ============================================ ConstantFieldPropagation::run

\* variant of requiresNominal: the pass runs under any type system
requiresNominalMut(ts) == FALSE

\* lines 358-360: Fatal() unless the type system is nominal
requiresNominal(ts) == ts # Nominal

\* The pass is called on a module, under some type system; Fatal() ends the
\* program (cpc "fatal").  The pass treats all functions alike, so of the
\* modules that differ only in the names of their functions the one whose
\* first function is the longer is taken.
CfpStartWith(budget) ==
  /\ cpc = "start"
  /\ \E h \in Hierarchies, n \in 0..Least(budget, MaxWrites) :
       \E w \in [1..n -> WriteInstrs], k \in 0..n :
         /\ 2 * k >= n
         /\ FirstUse(w, 1, 0)
         /\ superType' = h
         /\ writes' = [f \in CfpFuncs |-> IF f = "f1" THEN SubSeq(w, 1, k)
                                         ELSE SubSeq(w, k + 1, Len(w))]
  /\ before' = [writes |-> writes', gets |-> gets]
  /\ \E ts \in TypeSystems :
       /\ typeSystem' = ts
       /\ cpc' = IF requiresNominal(ts) THEN "fatal" ELSE "scan"
  /\ UNCHANGED <<orVars, pc, exVars, laVars, scanAt, gets, functionNewInfos, functionSetInfos,
                 combinedNewInfos, combinedSetInfos, combinedInfos,
                 shrinkLevel, fieldIsRef, passes>>

CfpStart == CfpStartWith(MaxWrites)

\* lines 363-373: the scan of every function, then the fold of the
\* per-function maps in the order the maps hand the functions out
CfpScan ==
  /\ cpc = "scan"
  /\ LET scanned == [f \in CfpFuncs |->
                       scanFunction([new |-> NoInfos, set |-> NoInfos], writes[f], 1)]
     IN /\ functionNewInfos' = [f \in CfpFuncs |-> scanned[f].new]
        /\ functionSetInfos' = [f \in CfpFuncs |-> scanned[f].set]
  /\ \E order \in Perms(CfpFuncs) :
       /\ combinedNewInfos' = combineAllInto(functionNewInfos', order, 1, NoInfos)
       /\ combinedSetInfos' = combineAllInto(functionSetInfos', order, 1, NoInfos)
  /\ cpc' = "propagateNew"
  /\ UNCHANGED <<orVars, pc, exVars, laVars, scanAt, typeSystem, superType, writes, gets, combinedInfos,
                 shrinkLevel, fieldIsRef, passes, before>>

\* line 408: propagateToSuperTypes(combinedNewInfos); the work queue starts
\* with the types in the order the map hands them out
CfpPropagateNew ==
  /\ cpc = "propagateNew"
  /\ \E work \in Perms(Types) :
       combinedNewInfos' = propagate(combinedNewInfos, superType, work, FALSE)
  /\ cpc' = "propagateSet"
  /\ UNCHANGED <<orVars, pc, exVars, laVars, scanAt, typeSystem, superType, writes, gets, functionNewInfos,
                 functionSetInfos, combinedSetInfos, combinedInfos,
                 shrinkLevel, fieldIsRef, passes, before>>

\* lines 409-414: propagateToSuperAndSubTypes(combinedSetInfos), then the
\* set-info is combined into the new-info, which becomes combinedInfos
CfpPropagateSet ==
  /\ cpc = "propagateSet"
  /\ \E work \in Perms(Types) :
       combinedSetInfos' = propagate(combinedSetInfos, superType, work, TRUE)
  /\ combinedInfos' = combineInto(combinedSetInfos', combinedNewInfos)
  /\ cpc' = "optimize"
  /\ UNCHANGED <<orVars, pc, exVars, laVars, scanAt, typeSystem, superType, writes, gets, functionNewInfos,
                 functionSetInfos, combinedNewInfos, shrinkLevel, fieldIsRef,
                 passes, before>>

\* line 269: getPassOptions(): a later run of the pass is given the options
\* of the first
getPassOptions(shrink) == passes > 0 => shrink = shrinkLevel

\* line 418: FunctionOptimizer(combinedInfos).run(runner, module).  The pass
\* options and the type of the field are read here for the first time.
CfpOptimize ==
  /\ cpc = "optimize"
  /\ \E shrink \in {0, 1}, isRef \in BOOLEAN :
       /\ getPassOptions(shrink)
       /\ passes > 0 => isRef = fieldIsRef
       /\ shrinkLevel' = shrink
       /\ fieldIsRef' = isRef
       /\ gets' = [s \in GetSites |->
                     visitStructGet(gets[s], s, combinedInfos, shrink, isRef)]
       /\ writes' = [f \in CfpFuncs |-> [k \in 1..Len(writes[f]) |->
                     optimizeWrite(writes[f][k], combinedInfos, shrink, isRef)]]
  /\ passes' = passes + 1
  /\ cpc' = "done"
  /\ UNCHANGED <<orVars, pc, exVars, laVars, scanAt, typeSystem, superType, functionNewInfos,
                 functionSetInfos, combinedNewInfos, combinedSetInfos,
                 combinedInfos, before>>

NextCfp ==
  CfpStart \/ CfpScan \/ CfpPropagateNew \/ CfpPropagateSet \/ CfpOptimize

SpecCfp == Init /\ [][NextCfp]_vars

\* The pass is run again on the module it produced.
CfpRerun ==
  /\ cpc = "done"
  /\ passes < MaxPasses
  /\ before' = [writes |-> writes, gets |-> gets]
  /\ functionNewInfos' = [f \in CfpFuncs |-> NoInfos]
  /\ functionSetInfos' = [f \in CfpFuncs |-> NoInfos]
  /\ combinedNewInfos' = NoInfos
  /\ combinedSetInfos' = NoInfos
  /\ combinedInfos' = NoInfos
  /\ cpc' = "scan"
  /\ UNCHANGED <<orVars, pc, exVars, laVars, scanAt, typeSystem, superType, writes, gets, shrinkLevel,
                 fieldIsRef, passes>>

CfpStartSmall == CfpStartWith(TwiceWrites)

NextCfpTwice ==
  CfpStartSmall \/ CfpScan \/ CfpPropagateNew \/ CfpPropagateSet
    \/ CfpOptimize \/ CfpRerun

SpecCfpTwice == Init /\ [][NextCfpTwice]_vars

\* ====================================== what the program does: guards set

\* A global that no function writes with zero or with a value the pass
\* cannot see never goes back to zero once it is non-zero.
Monotone(M, g) ==
  \A f \in Funcs : \A i \in 1..Len(M[f].list) :
    LET s == M[f].list[i] IN
    ~(s.op = "set" /\ s.name = g /\ (s.vk = "nonconst" \/ (s.vk = "const" /\ s.n = 0)))

\* Statement s leaves g non-zero when it completes: a write of a non-zero
\* constant, a call of a function that starts with  if (g) return; g = c,
\* or a call of a function that sets g before it returns (must).
LeavesSet(M, s, g, must) ==
  \/ s.op = "set" /\ s.name = g /\ s.vk = "const" /\ s.n # 0
  \/ s.op = "call" /\ g \in must[s.name]

\* Every path from the entry of the body to position i has passed a statement
\* that leaves g non-zero (or there is no such path).
PassedBefore(M, list, i, g, must) ==
  \E j \in 1..(i - 1) :
    /\ ~list[j].cond
    /\ \/ LeavesSet(M, list[j], g, must)
       \/ list[j].op = "return"
       \/ list[j].op = "set" /\ list[j].vk = "unr"

\* the positions at which the body returns: an (if (g) return) at i is the
\* return <<i, g>>, a return statement <<i, NoName>>, the end of the list
\* <<Len + 1, NoName>>
ReturnsOf(list) ==
  {<<i, list[i].name>> : i \in {j \in 1..Len(list) : list[j].op = "ifret"}}
    \cup {<<i, NoName>> : i \in {j \in 1..Len(list) : list[j].op = "return"}}
    \cup {<<Len(list) + 1, NoName>>}

\* the globals that are non-zero at every return of f, given must for the
\* callees: at a return taken by (if (g) return), g itself is non-zero
MustStep(M, must) ==
  [f \in Funcs |->
     {g \in Globals :
        /\ Monotone(M, g)
        /\ \A r \in ReturnsOf(M[f].list) :
             r[2] = g \/ PassedBefore(M, M[f].list, r[1], g, must)}]

RECURSIVE MustFix(_, _)
MustFix(M, must) ==
  LET next == MustStep(M, must) IN
  IF next = must THEN must ELSE MustFix(M, next)

\* The greatest such assignment: a function satisfies "g is non-zero at every
\* return" if it does whenever its callees do, a function that never returns
\* included.
MustSet(M) == MustFix(M, [f \in Funcs |-> Globals])

\* ------------------------------------------------------------------ C1
\* C1: every call of a "once" function and every write of a guard global
\* that an iteration replaces by a nop is, in the function as it was before
\* that iteration, preceded on every path from the entry by a statement that
\* leaves the guard non-zero.
C1_NopsAreDominated ==
  \A n \in history.nops :
    PassedBefore(history.funcs, history.funcs[n[1]].list, n[2], n[3],
                 MustSet(history.funcs))

\* C1 witness: a call of a "once" function is dropped where the only thing
\* before it is a call of a function that is not "once"
C1_Witness ==
  \E n \in history.nops :
    LET list == history.funcs[n[1]].list IN
    /\ list[n[2]].op = "call"
    /\ \A j \in 1..(n[2] - 1) :
         list[j].op = "call" /\ onceFuncs[list[j].name] = NoName

\* ------------------------------------------------------------------ C6
\* C6: after the demotion step, onceFuncs[f] = g implies that onceGlobals[g]
\* is true and that g is in onceGlobalsSetInFuncs[f].
C6_OnceFuncInOwnSet ==
  pc \in {"loop", "done"} =>
    \A f \in Funcs :
      onceFuncs[f] # NoName =>
        onceGlobals[onceFuncs[f]] /\ onceFuncs[f] \in onceGlobalsSetInFuncs[f]

\* ------------------------------------------------------------------ C8
\* C8: onceGlobalsSetInFuncs[f] after an iteration is a superset of what it
\* was before that iteration, for every function f.
C8_SetsOnlyGrow ==
  history.step = "iterate" =>
    \A f \in Funcs : history.setIn[f] \subseteq onceGlobalsSetInFuncs[f]

\* ------------------------------------------------------------------ C11
\* an iteration of the Optimizer that belongs to the second run of the pass
InSecondRun ==
  /\ history.step = "iterate"
  /\ orPasses = 2 \/ (orPasses = 1 /\ pc # "done")

\* C11: run again on the module it produced, the pass replaces no call and
\* no global write with a no-op; and when the driver stops, the Optimizer
\* given the final onceGlobalsSetInFuncs finds nothing left to replace.
C11_SecondRunAddsNoNop ==
  /\ InSecondRun => history.nops = {}
  /\ (pc = "done" /\ history.step = "iterate") =>
       \A f \in Funcs :
         doWalkFunction(funcs[f].list, onceGlobals, onceFuncs,
                        onceGlobalsSetInFuncs).nops = {}

\* C11 witness: the second run has stopped after more than one iteration, on
\* a module in which the first run left a no-op
C11_Witness ==
  /\ InSecondRun
  /\ pc = "done"
  /\ runs > 1
  /\ \E f \in Funcs : \E i \in 1..Len(funcs[f].list) :
       funcs[f].list[i].op = "nop"

\* ------------------------------------------------------------------ C15
\* the expression at position j of a body is in a block that dominates the
\* block of the expression at position i, or comes before it in its block
Dominates(list, j, i) ==
  LET blocks == basicBlocks(list)
      doms == DomSets(blocks, Len(blocks))
      In(k) == {b \in 1..Len(blocks) : k \in Range(blocks[b].exprs)}
  IN j < i /\ \E bj \in In(j), bi \in In(i) : bj \in doms[bi]

\* C15: when the driver has stopped, every call of a "once" function foo
\* that the module had after a call of bar dominating it, bar not "once" and
\* calling foo in its entry block, is a nop.
C15_TransitiveCallsAreNops ==
  pc = "done" =>
    \A caller \in Funcs, foo \in Funcs, bar \in Funcs :
      \A i \in 1..Len(input[caller].list), j \in 1..Len(input[caller].list) :
        ( /\ onceFuncs[foo] # NoName /\ onceFuncs[bar] = NoName
          /\ \E k \in Range(basicBlocks(input[bar].list)[1].exprs) :
               input[bar].list[k] = Call(foo)
          /\ input[caller].list[j] = Call(bar)
          /\ input[caller].list[i].op = "call" /\ input[caller].list[i].name = foo
          /\ Dominates(input[caller].list, j, i) )
        => funcs[caller].list[i].op = "nop"

\* C15 witness: the call of foo follows nothing but the call of bar, in a
\* caller that is neither foo nor bar, and the first run has stopped
C15_Witness ==
  /\ pc = "done" /\ orPasses = 1
  /\ \E caller \in Funcs, foo \in Funcs, bar \in Funcs :
       /\ caller # bar /\ caller # foo
       /\ onceFuncs[foo] # NoName /\ onceFuncs[bar] = NoName
       /\ onceFuncs[caller] = NoName
       /\ input[bar].list = <<Call(foo)>>
       /\ input[caller].list = <<Call(bar), Call(foo)>>
       /\ funcs[caller].list[2].op = "nop"

\* ------------------------------------------------------------------ C17
\* C17: when no function is "once" after the scan and the demotion, the
\* pass returns without a run of the Optimizer and every body is as it was
\* handed in.
C17_NothingOnceNothingDone ==
  (pc \notin {"start", "scan", "combine"} /\ \A f \in Funcs : onceFuncs[f] = NoName)
    => pc = "done" /\ runs = 0 /\ funcs = input

\* C17 witness: the scan found a "once" function, the demotion took it away,
\* and the pass has returned
C17_Witness ==
  /\ pc = "done" /\ history.step = "combine"
  /\ \A f \in Funcs : onceFuncs[f] = NoName
  /\ \E f \in Funcs : ScanOnceFunc(funcs[f]) # NoName
  /\ \E f \in Funcs : \E i \in 1..Len(funcs[f].list) : funcs[f].list[i].op = "call"

\* ------------------------------------------------------------------ C18
\* the global.set of g in the bodies run() was called with
WritesOf(g) ==
  UNION {{input[f].list[i] : i \in {k \in 1..Len(input[f].list) :
                                      /\ input[f].list[k].op = "set"
                                      /\ input[f].list[k].name = g}} : f \in Funcs}

\* the positions of the reads of g in body that are not the condition of
\* the prologue the Scanner recognised
StrayReads(body, g) ==
  {i \in 1..Len(body.list) : body.list[i].op \in {"ifret", "get"}
                              /\ body.list[i].name = g}
    \ (IF ScanOnceFunc(body) = g THEN {1} ELSE {})

C19_StrayReadsClearTheFlag ==
  pc \notin {"start", "scan"} =>
    \A g \in Globals :
      /\ (\E f \in Funcs : StrayReads(input[f], g) # {}) => ~onceGlobals[g]
      /\ \A f \in Funcs :
           ResidualReads(input[f], g) = Cardinality(StrayReads(input[f], g))

\* C19 witness: a function recognised as "once" for g reads g a second
\* time, and g has lost the flag for no other reason
C19_Witness ==
  /\ pc = "combine"
  /\ \E g \in Globals, f \in Funcs :
       /\ ScanOnceFunc(input[f]) = g
       /\ Cardinality(StrayReads(input[f], g)) = 1
       /\ InitialOnceGlobals(globals)[g] /\ ~onceGlobals[g]
       /\ \A s \in WritesOf(g) : s.vk = "const" /\ s.n > 0
       /\ \A h \in Funcs \ {f} : StrayReads(input[h], g) = {}

Establishes(s, setIn) ==
  IF s.op = "set" THEN (IF onceGlobals[s.name] THEN {s.name} ELSE {})
  ELSE IF s.op # "call" THEN {}
  ELSE IF onceFuncs[s.name] # NoName THEN {onceFuncs[s.name]}
  ELSE setIn[s.name]

\* C23: in every function an iteration walks, the set a block ends with is
\* the set its immediate dominator ended with, joined with what the block's
\* own expressions establish; the immediate dominator comes before the
\* block; the entry block starts empty; a block without immediate dominator
\* other than the entry is skipped, with an empty set and no expression
\* replaced; and every replaced expression has before it, in its block or in
\* a block dominating it, an expression that establishes its guard.
C23_BlocksStartFromTheirDominator ==
  history.step = "iterate" =>
    \A f \in Funcs :
      LET list == history.funcs[f].list
          r == doWalkFunction(list, onceGlobals, onceFuncs, history.setIn)
          blocks == basicBlocks(list)
          doms == iDoms(blocks)
          own(i) == UNION {Establishes(list[k], history.setIn) :
                             k \in Range(blocks[i].exprs)}
      IN /\ r.vec[1] = own(1)
         /\ \A i \in 2..Len(blocks) :
              IF doms[i] = nonsense
              THEN /\ r.vec[i] = {}
                   /\ \A k \in Range(blocks[i].exprs) : r.list[k] = list[k]
              ELSE /\ doms[i] < i
                   /\ r.vec[i] = r.vec[doms[i]] \cup own(i)
         /\ \A n \in history.nops :
              n[1] = f =>
                \E j \in 1..Len(list) :
                  /\ Dominates(list, j, n[2])
                  /\ n[3] \in Establishes(list[j], history.setIn)

\* C23 witness: the guard is established in the arm of an if and again
\* after the join, where nothing is replaced; and a block that cannot be
\* reached holds two calls of the "once" function, both kept
C23_Witness ==
  /\ history.step = "iterate"
  /\ LET list == history.funcs["bar"].list
         blocks == basicBlocks(list)
         doms == iDoms(blocks)
     IN /\ history.nops = {}
        /\ Len(list) = MaxBlockStmts
        /\ list[1] = InIf(Call("foo")) /\ list[2] = Call("foo")
        /\ \E i \in 2..Len(blocks) :
             doms[i] = nonsense /\ Len(blocks[i].exprs) = 2

\* ------------------------------------------------------------------ C24
\* C24: whenever a run of the module, as any iteration has left it, returns
\* from a function f, every global of onceGlobalsSetInFuncs[f] is non-zero.
C24_SummaryHoldsAtReturn ==
  (pc = "exec" /\ lastRet # NoName) =>
    \A g \in onceGlobalsSetInFuncs[lastRet] : store[g] # 0

\* C24 witness: two functions that are not "once" call each other; one of
\* them, called by the other, has returned with a non-empty summary, after
\* more than one iteration
C24_Witness ==
  /\ pc = "exec" /\ lastRet # NoName /\ runs > 1
  /\ onceFuncs[lastRet] = NoName
  /\ onceGlobalsSetInFuncs[lastRet] # {}
  /\ stack # <<>> /\ Top.f # lastRet /\ onceFuncs[Top.f] = NoName
  /\ \E i \in 1..Len(funcs[lastRet].list) :
       funcs[lastRet].list[i].op = "call" /\ funcs[lastRet].list[i].name = Top.f

\* ------------------------------------------------------------------ C25
\* C25: while the tasks of the scan run, onceGlobals[g] only goes from true
\* to false and onceFuncs[f] changes only in a step of the task of f; and
\* when all tasks have finished onceGlobals and onceFuncs are what the scan
\* of the functions one after the other gives, whatever the interleaving.
C25_ScanIsDeterministic ==
  /\ [](pc = "combine" =>
         /\ onceGlobals = [g \in Globals |->
               InitialOnceGlobals(globals)[g]
                 /\ \A f \in Funcs : g \notin ScanDemotes(funcs[f])]
         /\ onceFuncs = [f \in Funcs |-> ScanOnceFunc(funcs[f])])
  /\ [][pc = "scan" =>
         /\ \A g \in Globals : onceGlobals'[g] => onceGlobals[g]
         /\ \A f \in Funcs :
              onceFuncs'[f] # onceFuncs[f] => scanAt'[f] # scanAt[f]]_vars

\* C25 witness: the tasks of two functions have both cleared the flag of
\* the same global, the second after the first had moved on, while a third
\* task has not yet taken a step
C25_Witness ==
  /\ pc = "scan"
  /\ \E g \in Globals, f \in Funcs, h \in Funcs, k \in Funcs :
       /\ f # h /\ k \notin {f, h}
       /\ InitialOnceGlobals(globals)[g] /\ ~onceGlobals[g]
       /\ scanAt[f] > 1 /\ funcs[f].list = <<Stmt("set", g, "nonconst", 0, FALSE)>>
       /\ scanAt[h] > Len(funcs[h].list) + 1 + Len(GlobalOrder)
       /\ ResidualReads(funcs[h], g) > 0
       /\ scanAt[k] = 1

\* C28: in no iteration is the second statement of a function that is
\* "once" for G, its write of G, replaced by a nop: from the first iteration
\* on that statement is still the write of G, and the iteration just done
\* replaced nothing at that position.
C28_PrologueWriteIsKept ==
  pc \in {"loop", "done", "abort"} =>
    \A f \in Funcs :
      onceFuncs[f] # NoName =>
        /\ funcs[f].list[2].op = "set"
        /\ funcs[f].list[2].name = onceFuncs[f]
        /\ funcs[f].list[2] = input[f].list[2]
        /\ \A n \in history.nops : ~(n[1] = f /\ n[2] = 2)

\* C28 witness: an iteration replaced a later write of G inside a function
\* that is "once" for G, and left the write of the prologue in place
C28_Witness ==
  /\ history.step = "iterate"
  /\ \E f \in Funcs :
       /\ onceFuncs[f] # NoName
       /\ \E n \in history.nops :
            n[1] = f /\ n[2] > 2 /\ n[3] = onceFuncs[f]
       /\ funcs[f].list[2].op = "set"
       /\ funcs[f].list[2].name = onceFuncs[f]

\* ------------------------------------------------------------------ C9
\* C9: the Optimizer runs at most |functions| * |onceGlobals| times, and
\* after an iteration the loop goes on exactly when the count of entries is
\* greater than the count recorded before it.
FlaggedGlobals == {g \in Globals : onceGlobals[g]}

C9_LoopTerminates ==
  /\ runs <= Cardinality(Funcs) * Cardinality(FlaggedGlobals)
  /\ history.step = "iterate" =>
       /\ pc \in {"loop", "done"}
       /\ pc = "loop" <=> CountSet(onceGlobalsSetInFuncs) > history.last
       /\ lastOnceGlobalsSet =
            IF pc = "loop" THEN CountSet(onceGlobalsSetInFuncs) ELSE history.last

\* C9 witness: the loop has stopped after as many runs as the bound allows
C9_Witness ==
  /\ pc = "done"
  /\ runs = Cardinality(Funcs) * Cardinality(FlaggedGlobals)
  /\ runs > 1

\* ------------------------------------------------------------------ C7
\* C7: in any run of the program, before or after the pass has rewritten it,
\* once a call of a function f with onceFuncs[f] = g has returned, g is
\* non-zero for good.
C7_GuardStaysSet ==
  \A g \in returned : store[g] # 0

\* C7 witness: a "once" function has returned and, later, a function that is
\* not "once" has returned too
C7_Witness ==
  /\ returned # {}
  /\ lastRet # NoName /\ onceFuncs[lastRet] = NoName
  /\ pc = "exec" /\ runs > 0

\* ============================== what the module does: the values of the field

\* the struct.new and struct.set instructions of module M
WritesIn(M) == UNION {Range(M.writes[f]) : f \in CfpFuncs}

\* a value the pass has no literal for
AnyValue == 0

\* One round of: the values an object whose type is exactly x may hold in the
\* field.  An object exists only if the module allocates it; a struct.set on
\* u reaches the objects of u and of its subtypes; a copy on u stores what a
\* struct.get on u may read, which is the field of any object of u or of a
\* subtype of u.
StoredStep(W, sup, st) ==
  [x \in Types |->
     IF ~\E w \in W : w.k = "new" /\ w.t = x THEN {}
     ELSE UNION {IF w.k = "new" THEN IF w.t # x THEN {}
                                     ELSE IF w.e = "const" THEN {w.v} ELSE {AnyValue}
                 ELSE IF ~IsSubType(sup, x, w.t) THEN {}
                 ELSE IF w.e = "const" THEN {w.v}
                 ELSE IF w.e = "other" THEN {AnyValue}
                 ELSE UNION {st[y] : y \in {z \in Types : IsSubType(sup, z, w.t)}}
                 : w \in W}]

RECURSIVE StoredFix(_, _, _)
StoredFix(W, sup, st) ==
  LET next == StoredStep(W, sup, st) IN
  IF next = st THEN st ELSE StoredFix(W, sup, next)

Stored(W, sup) == StoredFix(W, sup, [x \in Types |-> {}])

\* what a struct.get on t may read
Readable(W, sup, t) ==
  UNION {Stored(W, sup)[x] : x \in {z \in Types : IsSubType(sup, z, t)}}

\* what instruction w may store in the field
WrittenBy(W, sup, w) ==
  IF w.e = "const" THEN {w.v}
  ELSE IF w.e = "other" THEN {AnyValue}
  ELSE Readable(W, sup, w.t)

\* the instructions that decide what a struct.get on t reads: the
\* allocations of t and of its subtypes, the writes on t, its subtypes and
\* its supertypes
RelevantTo(W, sup, t) ==
  {w \in W : IF w.k = "new" THEN IsSubType(sup, w.t, t)
             ELSE Comparable(sup, w.t, t)}

\* PossibleConstantValues: neither Unwritten nor constant
IsUnknown(info) == info.noted /\ info.values = <<>>

\* the observations the scanner makes of the instructions relevant to a
\* struct.get on t; a copy is no observation
Observed(W, sup, t) ==
  {IF w.e = "const" THEN w.v ELSE AnyValue :
     w \in {r \in RelevantTo(W, sup, t) : r.e # "copy"}}

\* info is at least the join of the observations obs, in the order
\* Unwritten < Constant(S) < Constant(S') < Unknown for S a subset of S'
AboveJoin(info, obs) ==
  IF obs = {} THEN TRUE
  ELSE IF AnyValue \in obs \/ Cardinality(obs) > MaxConstantValues
  THEN IsUnknown(info)
  ELSE IsUnknown(info) \/ obs \subseteq Range(info.values)

\* =================================================== claims: the field values

\* C2: after the scan, the fold and the propagation to supertypes, new-info
\* of every type is Unknown or contains every literal that an allocation of
\* the type or of one of its subtypes writes to the field, whatever the order
\* of the fold.
C2_NewInfoHoldsEveryLiteral ==
  cpc \in {"propagateSet", "optimize", "done"} =>
    \A t \in Types : \A w \in WritesIn(before) :
      (w.k = "new" /\ w.e = "const" /\ IsSubType(superType, w.t, t))
        => IsUnknown(combinedNewInfos[t])
             \/ w.v \in Range(combinedNewInfos[t].values)

\* C3: when a struct.get on t is rewritten to the single constant c, every
\* allocation of t or of a subtype of t and every write on t, on a subtype
\* or on a supertype of t stores c and nothing else in the field.
C3_SingleConstantIsAllThatIsWritten ==
  cpc = "done" =>
    \A t \in Types :
      (before.gets[t].node = "get" /\ gets[t].node = "const") =>
        \A w \in RelevantTo(WritesIn(before), superType, t) :
          WrittenBy(WritesIn(before), superType, w) \subseteq Range(gets[t].values)

\* C4: when a struct.get on t is wrapped in the select between v1 and v2,
\* every allocation and write relevant to t stores v1 or v2 in the field, so
\* that the select yields what the struct.get reads.
C4_SelectHoldsAllThatIsWritten ==
  cpc = "done" =>
    \A t \in Types :
      Len(gets[t].selects) > Len(before.gets[t].selects) =>
        \A w \in RelevantTo(WritesIn(before), superType, t) :
          WrittenBy(WritesIn(before), superType, w)
            \subseteq Range(gets[t].selects[Len(gets[t].selects)])

\* C5: the lattice value the rewriter consults for a struct.get on t is at
\* least the join of the observations of the allocations of t and of its
\* subtypes and of the writes on t, its subtypes and its supertypes.
C5_ConsultedIsAboveTheJoin ==
  cpc \in {"optimize", "done"} =>
    \A t \in Types :
      AboveJoin(combinedInfos[t], Observed(WritesIn(before), superType, t))

\* C12: when the allocations and writes on a type t store three pairwise
\* distinct literals in the field, the lattice value consulted for t is
\* Unknown and the struct.get on t is not rewritten.
C12_ThreeLiteralsGiveUnknown ==
  cpc \in {"optimize", "done"} =>
    \A t \in Types :
      Cardinality({w.v : w \in {r \in WritesIn(before) :
                                  r.t = t /\ r.e = "const"}}) > MaxConstantValues
        => /\ IsUnknown(combinedInfos[t])
           /\ cpc = "done" => gets[t] = before.gets[t]

\* C13: a struct.get on a type t becomes  drop(ref); unreachable  exactly
\* when the lattice value consulted for t is Unwritten, and the struct.get
\* whose reference has unreachable type is never rewritten.
C13_TrapIffUnwritten ==
  cpc = "done" =>
    /\ \A t \in Types :
         before.gets[t].node = "get" =>
           (gets[t].node = "trap" <=> ~combinedInfos[t].noted)
    /\ gets[Unreachable] = before.gets[Unreachable]

\* C13 witness: one struct.get has become a trap, another, of a written
\* field, has not
C13_Witness ==
  /\ cpc = "done"
  /\ \E t \in Types : before.gets[t].node = "get" /\ gets[t].node = "trap"
  /\ \E t \in Types : combinedInfos[t].noted /\ gets[t].node # "trap"
  /\ gets[Unreachable] = UntouchedGet

\* C14: a struct.get is wrapped in the two-value select exactly when the
\* lattice value consulted holds two constants, shrinkLevel is 0 and the
\* field is not of reference type; a two-constant lattice with shrinkLevel
\* above 0 or a field of reference type leaves the struct.get as it was; a
\* one-constant lattice gives the constant whatever shrinkLevel and the type.
C14_SelectIffTwoConstants ==
  cpc = "done" =>
    \A t \in Types :
      before.gets[t].node = "get" =>
        LET values == combinedInfos[t].values
            wrapped == Len(gets[t].selects) > Len(before.gets[t].selects)
        IN /\ wrapped <=> (Len(values) = 2 /\ shrinkLevel = 0 /\ ~fieldIsRef)
           /\ wrapped => gets[t] = [before.gets[t] EXCEPT !.selects = Append(@, values)]
           /\ (Len(values) = 2 /\ (shrinkLevel > 0 \/ fieldIsRef))
                => gets[t] = before.gets[t]
           /\ Len(values) = 1
                => gets[t] = [before.gets[t] EXCEPT !.node = "const", !.values = values]

\* C14 witness: a two-constant field of reference type is left alone at
\* shrinkLevel 0, next to a struct.get replaced by its one constant
C14_Witness ==
  /\ cpc = "done" /\ shrinkLevel = 0 /\ fieldIsRef
  /\ \E t \in Types : Len(combinedInfos[t].values) = 2 /\ gets[t] = UntouchedGet
  /\ \E t \in Types : Len(combinedInfos[t].values) = 1 /\ gets[t].node = "const"

\* C16: under a type system that is not nominal the pass ends in the fatal
\* error before it scans, propagates or rewrites: in the state of the fatal
\* error nothing has been noted and the module is as it was handed in.
C16_FatalBeforeAnyStep ==
  /\ typeSystem # Nominal => cpc \in {"start", "fatal"}
  /\ cpc = "fatal" =>
       /\ typeSystem # Nominal
       /\ gets = before.gets /\ writes = before.writes
       /\ \A s \in GetSites : gets[s] = UntouchedGet
       /\ \A f \in CfpFuncs :
            functionNewInfos[f] = NoInfos /\ functionSetInfos[f] = NoInfos
       /\ combinedNewInfos = NoInfos /\ combinedSetInfos = NoInfos
       /\ combinedInfos = NoInfos
       /\ passes = 0

\* C16 witness: the fatal error on a module that has a field written with a
\* constant, which the pass would otherwise rewrite the reads of
C16_Witness ==
  /\ cpc = "fatal"
  /\ \E w \in WritesIn(before) : w.k = "new" /\ w.e = "const"

\* C20: a.combine(b) leaves a as the calls that made b, made on a, leave
\* it, and returns true exactly when a has changed.
C20_CombineReplaysTheCalls ==
  lpc = "done" =>
    /\ thisInfo = noteAll(thisBefore, otherCalls, 1)
    /\ changed <=> thisInfo # thisBefore

\* C21: a.combine(b) and b.combine(a) end in the same abstract state: both
\* Unwritten, both Unknown, or both constant with the same set of constants.
C21_CombineCommutes ==
  lpc = "done" =>
    LET other == combine(otherInfo, thisBefore).info IN
    /\ thisInfo.noted = other.noted
    /\ Range(thisInfo.values) = Range(other.values)

\* C26: a struct.set whose value is a struct.get of the same type and field
\* leaves the set-info of the slot as it is: the set-info a function's scan
\* gives is the one its writes without the copies give, so a slot with no
\* write but copies is Unwritten after the fold and no copy makes a constant
\* slot Unknown.
C26_CopiesAreIgnored ==
  cpc \in {"propagateNew", "propagateSet"} =>
    LET NotCopy(w) == ~(w.k = "set" /\ w.e = "copy") IN
    /\ \A f \in CfpFuncs :
         functionSetInfos[f] =
           scanFunction([new |-> NoInfos, set |-> NoInfos],
                        SelectSeq(before.writes[f], NotCopy), 1).set
    /\ \A t \in Types :
         (\A w \in WritesIn(before) : (w.k = "set" /\ w.t = t) => w.e = "copy")
           => combinedSetInfos[t] = Unwritten

\* C26 witness: one type is written by a copy only, and in one function a
\* write of a constant to another type is followed by a copy, the slot
\* staying constant
C26_Witness ==
  /\ cpc = "propagateNew"
  /\ \E t \in Types :
       /\ \E w \in WritesIn(before) : w.k = "set" /\ w.t = t
       /\ \A w \in WritesIn(before) : (w.k = "set" /\ w.t = t) => w.e = "copy"
  /\ \E f \in CfpFuncs, t \in Types :
       /\ Len(before.writes[f]) >= 2
       /\ before.writes[f][1].k = "set" /\ before.writes[f][1].t = t
       /\ before.writes[f][1].e = "const"
       /\ before.writes[f][2] = [before.writes[f][1] EXCEPT !.e = "copy", !.v = 0]
       /\ isConstant(functionSetInfos[f][t])

KeptInSelect(get) ==
  get.node = "get" /\ \E k \in 1..Len(get.selects) : Len(get.selects[k]) = 2

\* the distinct constants module M writes to the field
ConstantsIn(M) == {w.v : w \in {r \in WritesIn(M) : r.e = "const"}}

====
